---- MODULE Spec2Model ----
(***************************************************************************)
(* A model of the SOFI C++ library (soficpp) and of its demonstration      *)
(* driver sofi_demo: the integrity lattice integrity_set, the access       *)
(* controllers, the integrity modification functions, entities, and the    *)
(* engine that tests and executes operations.                              *)
(*                                                                         *)
(* engine::operation() is modelled statement group by statement group;     *)
(* variable pc holds the position inside the call.                         *)
(***************************************************************************)
EXTENDS Integers, Sequences, FiniteSets, TLC

\* Number of distinct elements (strings) an integrity_set may contain.
MaxElem == 2

Elems == 1..MaxElem

(***************************************************************************)
(* integrity_set<T>: std::variant<set_t, universe>.  u = TRUE is the       *)
(* alternative universe (which carries no set), otherwise s is the set.    *)
(***************************************************************************)
Set(S) == [u |-> FALSE, s |-> S]

Universe == [u |-> TRUE, s |-> {}]

Integrity == {Set(S) : S \in SUBSET Elems} \cup {Universe}

integrity_set_min == Set({})

integrity_set_max == Universe

integrity_set_eq(a, b) ==
    IF a.u THEN b.u
    ELSE IF b.u THEN FALSE
    ELSE a.s = b.s

\* operator<=> as it would be if a set holding every element counted as the universe
integrity_set_cmp_full_is_universe(a, b) ==
    LET au == a.u \/ a.s = Elems
        bu == b.u \/ b.s = Elems
    IN  IF au THEN (IF bu THEN "equivalent" ELSE "greater")
        ELSE IF bu THEN "less"
        ELSE LET v_subset_of_i == \A v \in a.s : v \in b.s
                 i_subset_of_v == \A i \in b.s : i \in a.s
             IN  IF v_subset_of_i
                 THEN (IF i_subset_of_v THEN "equivalent" ELSE "less")
                 ELSE (IF i_subset_of_v THEN "greater" ELSE "unordered")

integrity_set_cmp(a, b) ==
    IF a.u THEN (IF b.u THEN "equivalent" ELSE "greater")
    ELSE IF b.u THEN "less"
    ELSE LET v_subset_of_i == \A v \in a.s : v \in b.s
             i_subset_of_v == \A i \in b.s : i \in a.s
         IN  IF v_subset_of_i
             THEN (IF i_subset_of_v THEN "equivalent" ELSE "less")
             ELSE (IF i_subset_of_v THEN "greater" ELSE "unordered")

\* a <= b and a >= b, as the compiler derives them from operator<=>
Leq(a, b) == integrity_set_cmp(a, b) \in {"less", "equivalent"}

Geq(a, b) == integrity_set_cmp(a, b) \in {"greater", "equivalent"}

integrity_set_join(a, b) ==
    IF a.u \/ b.u THEN Universe
    ELSE Set({v \in Elems : v \in a.s \/ v \in b.s})

\* operator* as it would be if a universe operand were returned instead of the other one
integrity_set_meet_universe(a, b) ==
    IF a.u THEN a
    ELSE IF b.u THEN b
    ELSE Set({v \in a.s : v \in b.s})

integrity_set_meet(a, b) ==
    IF a.u THEN b
    ELSE IF b.u THEN a
    ELSE LET set1 == IF Cardinality(a.s) < Cardinality(b.s) THEN a.s ELSE b.s
             set2 == IF Cardinality(a.s) < Cardinality(b.s) THEN b.s ELSE a.s
         IN  Set({v \in set1 : v \in set2})

(***************************************************************************)
(* Operations: only the key and the read/write flags matter to the engine. *)
(***************************************************************************)
op_no_flow == [key |-> "test_no_flow", is_read |-> FALSE, is_write |-> FALSE]

op_rd == [key |-> "test_rd", is_read |-> TRUE, is_write |-> FALSE]

op_wr == [key |-> "test_wr", is_read |-> FALSE, is_write |-> TRUE]

op_rd_wr == [key |-> "test_rd_wr", is_read |-> TRUE, is_write |-> TRUE]

TestOps == {op_no_flow, op_rd, op_wr, op_rd_wr}

(***************************************************************************)
(* Access controllers.  A null std::shared_ptr<acl_t> is NullAcl.          *)
(***************************************************************************)
NullAcl == [kind |-> "null"]

AclSingle(i) == [kind |-> "single", integrity |-> i]

Acl(l) == [kind |-> "list", l |-> l]

OpsAcl(m, d) == [kind |-> "ops", map |-> m, default_op |-> d]

\* enum class controller_test
ControllerTest == {"access", "min_subj", "min_obj"}

\* test(subj, op, v, kind) of each controller; none of them touches the verdict v
\* acl_single::test as it would be with the comparison turned round
acl_single_test_swapped(a, subj_i, o, kind) == Leq(subj_i, a.integrity)

acl_single_test(a, subj_i, o, kind) == Geq(subj_i, a.integrity)

\* acl::test as it would be if the subject had to equal an element of the list
acl_test_exact(a, subj_i, o, kind) == \E k \in 1..Len(a.l) : integrity_set_eq(subj_i, a.l[k])

acl_test(a, subj_i, o, kind) == \E k \in 1..Len(a.l) : Geq(subj_i, a.l[k])

\* ops_acl::test as it would be if a null entry fell back to the default controller
ops_acl_test_null_to_default(a, subj_i, o, kind) ==
    IF o.key \in DOMAIN a.map /\ a.map[o.key] # NullAcl
    THEN acl_test(a.map[o.key], subj_i, o, kind)
    ELSE (IF a.default_op # NullAcl THEN acl_test(a.default_op, subj_i, o, kind) ELSE FALSE)

ops_acl_test(a, subj_i, o, kind) ==
    IF o.key \in DOMAIN a.map
    THEN (IF a.map[o.key] # NullAcl THEN acl_test(a.map[o.key], subj_i, o, kind) ELSE FALSE)
    ELSE (IF a.default_op # NullAcl THEN acl_test(a.default_op, subj_i, o, kind) ELSE FALSE)

\* test() of whichever controller type an entity uses
controller_test(a, subj_i, o, kind) ==
    CASE a.kind = "single" -> acl_single_test(a, subj_i, o, kind)
      [] a.kind = "list"   -> acl_test(a, subj_i, o, kind)
      [] a.kind = "ops"    -> ops_acl_test(a, subj_i, o, kind)
      [] OTHER             -> FALSE

(***************************************************************************)
(* Integrity modification functions.  A function object is its target      *)
(* (kind, with constant c or table tab) and its safety status safe():      *)
(*   none  - no target (default constructed wrapper)                       *)
(*   min   - target returning I::min()                                     *)
(*   max   - target returning limit                                        *)
(*   meet  - a user target returning i * c                                 *)
(*   join  - a user target returning i + c                                 *)
(*   const - a user target returning c                                     *)
(*   table - demo::integrity_fun, a vector of pairs                        *)
(***************************************************************************)
Fun(kind, c, safe) == [kind |-> kind, c |-> c, tab |-> <<>>, safe |-> safe]

TableFun(tab) == [kind |-> "table", c |-> integrity_set_min, tab |-> tab, safe |-> TRUE]

\* one pair of demo::integrity_fun: (first, second), second may be nullopt
Pair(first, has_second, second) == [first |-> first, has_second |-> has_second, second |-> second]

RECURSIVE demo_integrity_fun_loop(_, _, _, _)
demo_integrity_fun_loop(tab, k, i, result) ==
    IF k > Len(tab) THEN result
    ELSE LET v == tab[k]
             r == IF Leq(v.first, i)
                  THEN (IF v.has_second
                        THEN integrity_set_join(result, v.second)
                        ELSE integrity_set_join(result, i))
                  ELSE result
         IN  demo_integrity_fun_loop(tab, k + 1, i, r)

\* demo::integrity_fun::operator() as it would be without the final meet with limit
demo_integrity_fun_call_unlimited(tab, i, limit) ==
    demo_integrity_fun_loop(tab, 1, i, integrity_set_min)

demo_integrity_fun_call(tab, i, limit) ==
    integrity_set_meet(demo_integrity_fun_loop(tab, 1, i, integrity_set_min), limit)

\* operator()(i, limit, op) of an integrity function
fun_call(f, i, limit) ==
    CASE f.kind = "none"  -> (IF f.safe THEN integrity_set_meet(i, limit) ELSE i)
      [] f.kind = "min"   -> integrity_set_min
      [] f.kind = "max"   -> limit
      [] f.kind = "meet"  -> integrity_set_meet(i, f.c)
      [] f.kind = "join"  -> integrity_set_join(i, f.c)
      [] f.kind = "const" -> f.c
      [] f.kind = "table" -> demo_integrity_fun_call(f.tab, i, limit)

fun_safe(f) == f.safe

\* the factories min(), identity(), max() of safe_integrity_fun / dyn_integrity_fun
fun_min == Fun("min", integrity_set_min, TRUE)

\* fun_identity as it would be if identity() forgot to mark the function safe
fun_identity_unsafe == Fun("none", integrity_set_min, FALSE)

fun_identity == Fun("none", integrity_set_min, TRUE)

fun_max == Fun("max", integrity_set_min, TRUE)

\* the factories min(), identity(), max() of integrity_fun<I, O, Safe>
integrity_fun_min(Safe) == Fun("min", integrity_set_min, Safe)

integrity_fun_identity(Safe) == Fun("none", integrity_set_min, Safe)

integrity_fun_max(Safe) == Fun("max", integrity_set_min, Safe)

\* the factories of demo::integrity_fun
demo_fun_min == TableFun(<<>>)

demo_fun_identity == TableFun(<<Pair(integrity_set_min, FALSE, integrity_set_min)>>)

demo_fun_max == TableFun(<<Pair(integrity_set_min, TRUE, Universe)>>)

(***************************************************************************)
(* Entities (basic_entity).                                                *)
(***************************************************************************)
Entity(i, m, ac, tf, pf, rf) ==
    [integrity |-> i, min_integrity |-> m, access_ctrl |-> ac,
     test_fun |-> tf, prov_fun |-> pf, recv_fun |-> rf]

(***************************************************************************)
(* engine::pass_integrity                                                  *)
(***************************************************************************)
\* pass_i_test as it would be with the two integrities handed over in the wrong order
pass_i_test_swapped(writer, reader) ==
    LET i_test == fun_call(reader.test_fun, reader.integrity, writer.integrity)
    IN  IF ~fun_safe(reader.test_fun)
        THEN integrity_set_meet(i_test, reader.integrity)
        ELSE i_test

\* pass_i_test as it would be without the clamp of an unsafe testing function
pass_i_test_unclamped(writer, reader) ==
    fun_call(reader.test_fun, writer.integrity, reader.integrity)

\* i_test after the optional clamp by the reader's integrity
pass_i_test(writer, reader) ==
    LET i_test == fun_call(reader.test_fun, writer.integrity, reader.integrity)
    IN  IF ~fun_safe(reader.test_fun)
        THEN integrity_set_meet(i_test, reader.integrity)
        ELSE i_test

\* i_prov as returned by the providing function
pass_i_prov_raw(writer) ==
    fun_call(writer.prov_fun, writer.integrity, writer.integrity)

\* i_prov as handed to the receiving function
pass_i_prov(writer) ==
    IF ~fun_safe(writer.test_fun)
    THEN integrity_set_meet(pass_i_prov_raw(writer), writer.integrity)
    ELSE pass_i_prov_raw(writer)

\* does pass_integrity call the receiving function
pass_calls_recv(writer) ==
    ~integrity_set_eq(pass_i_prov_raw(writer), integrity_set_min)

\* pass_i_recv_raw as it would be if the receiving function got no limit
pass_i_recv_raw_unlimited(writer, reader) ==
    fun_call(reader.recv_fun, pass_i_prov(writer), integrity_set_max)

\* i_recv as returned by the receiving function
pass_i_recv_raw(writer, reader) ==
    fun_call(reader.recv_fun, pass_i_prov(writer), pass_i_prov(writer))

\* i_recv after the optional clamp by i_prov
pass_i_recv(writer, reader) ==
    IF ~fun_safe(reader.recv_fun)
    THEN integrity_set_meet(pass_i_recv_raw(writer, reader), pass_i_prov(writer))
    ELSE pass_i_recv_raw(writer, reader)

pass_integrity(writer, reader) ==
    IF pass_calls_recv(writer)
    THEN (IF ~integrity_set_eq(pass_i_recv_raw(writer, reader), integrity_set_min)
          THEN integrity_set_join(pass_i_test(writer, reader), pass_i_recv(writer, reader))
          ELSE pass_i_test(writer, reader))
    ELSE pass_i_test(writer, reader)

\* std::optional<integrity_t>
Nullopt == [has |-> FALSE, val |-> integrity_set_min]

Some(i) == [has |-> TRUE, val |-> i]

(***************************************************************************)
(* The operations of the demonstration driver (demo::op_id) with their     *)
(* read/write flags.                                                       *)
(***************************************************************************)
DemoOp(key, rd, wr) == [key |-> key, is_read |-> rd, is_write |-> wr]

DemoOps ==
    { DemoOp("no_op", FALSE, FALSE),
      DemoOp("read", TRUE, FALSE),
      DemoOp("write", FALSE, TRUE),
      DemoOp("read_append", TRUE, FALSE),
      DemoOp("write_append", FALSE, TRUE),
      DemoOp("write_arg", FALSE, TRUE),
      DemoOp("append_arg", FALSE, TRUE),
      DemoOp("swap", TRUE, TRUE),
      DemoOp("set_integrity", FALSE, TRUE),
      DemoOp("set_min_integrity", FALSE, TRUE),
      DemoOp("clone", FALSE, FALSE),
      DemoOp("destroy", FALSE, FALSE) }

(***************************************************************************)
(* State.                                                                  *)
(*   subj, obj   the two entities handed to engine::operation()            *)
(*   pc          position inside operation() or the driver loop,           *)
(*               "idle" between calls                                      *)
(*   op, execute the arguments of the running call                         *)
(*   verdict     the verdict object of the running call                    *)
(*   i_subj, i_obj  the prospective integrities (std::optional)            *)
(*   recv_in     the integrity handed to the receiving function of obj     *)
(*               and of subj by pass_integrity, if it was called           *)
(*   trace       the steps taken by the running call, in order             *)
(*   pre         the integrities of subj and obj when the call started     *)
(*   caller      who called operation(): "api" or the demo "driver"        *)
(*   dry         the verdict of the preceding call if it was a test-only   *)
(*               call (execute = false), with its operation and state      *)
(*   arg         the argument of the driver's request: the integrity it    *)
(*               parses to, or nothing when it is not valid JSON           *)
(*   db          the entities stored in the driver's database              *)
(*   result      the row the driver writes to table RESULT                 *)
(*   initial     the integrities subj and obj had in the initial state     *)
(*   tables      the driver's tables REQUEST and RESULT as the open        *)
(*               transaction sees them (db is its table ENTITY)            *)
(*   committed   the content of ENTITY, REQUEST and RESULT as last         *)
(*               committed                                                 *)
(*   run         the state of cmd_run: the deque ops read from REQUEST     *)
(*               (read tells whether it was read), the index cur of the    *)
(*               request in progress, how the program ended (exit), the    *)
(*               failure of the agent in the current request (fault), and  *)
(*               the content of REQUEST when the program started (start)   *)
(*   calc        the last call of a library function made directly by the  *)
(*               caller (a lattice operation, a controller's test(), an    *)
(*               integrity function): its arguments and what it returned   *)
(***************************************************************************)
VARIABLES subj, obj, pc, op, execute, verdict, i_subj, i_obj, recv_in, trace, pre, caller,
          dry, arg, db, result, calc, initial, tables, committed, run

vars == <<subj, obj, pc, op, execute, verdict, i_subj, i_obj, recv_in, trace, pre, caller,
          dry, arg, db, result, calc, initial, tables, committed, run>>

\* the driver's tables other than ENTITY, their committed content, and the run
sql == <<tables, committed, run>>

drv == <<arg, db, result>>

\* verdict_t verdict{}: simple_verdict, extended by demo::verdict
DefaultVerdict == [access_test |-> FALSE, min_test |-> FALSE, error |-> FALSE, destroy |-> FALSE]

\* allowed() as it would be if one passed test sufficed
allowed_either(v) == v.access_test \/ v.min_test

allowed(v) == v.access_test /\ v.min_test

NoRecv == [obj |-> Nullopt, subj |-> Nullopt]

NoDry == [valid |-> FALSE, op |-> op_no_flow, pre |-> <<>>, access_test |-> FALSE, min_test |-> FALSE]

\* no library function has been called directly
NoCalc == [fn |-> "none"]

\* op_record{}: the defaults of the result fields
NoResult == [written |-> FALSE, allowed |-> FALSE, access |-> FALSE, min |-> FALSE, error |-> TRUE]

\* the function triples (test_fun, prov_fun, recv_fun) entities are built with
FunProfiles ==
    { <<fun_identity, fun_min, fun_min>>,
      <<fun_identity, fun_max, fun_max>>,
      <<fun_identity, Fun("join", Set({1}), FALSE), fun_max>>,
      <<Fun("join", Set({1}), FALSE), Fun("join", Set({1}), FALSE), Fun("none", integrity_set_min, FALSE)>> }

\* the minimum integrity controllers entities are built with
MinSet == { AclSingle(integrity_set_min), AclSingle(Set({1})) }

\* the access controllers objects are built with
NoMap == <<>>

AccessSet ==
    { OpsAcl(NoMap, NullAcl),
      OpsAcl(NoMap, Acl(<<integrity_set_min>>)),
      OpsAcl([k \in {"test_rd", "test_wr"} |->
                 IF k = "test_rd" THEN Acl(<<Set({1})>>) ELSE NullAcl],
             Acl(<<Universe>>)) }

\* basic_entity(): the default constructed entity
DefaultEntity ==
    Entity(integrity_set_min, AclSingle(integrity_set_min), OpsAcl(NoMap, NullAcl),
           fun_identity, fun_min, fun_min)

NoDb == [names |-> {}, subj |-> DefaultEntity, obj |-> DefaultEntity, clone |-> DefaultEntity]

\* what the argument string of a request parses to: nothing, an integrity
\* (str2integrity) or a minimum integrity (str2min_integrity)
NoArg == [int |-> Nullopt, min |-> [has |-> FALSE, val |-> <<>>]]

ArgInt(i) == [int |-> Some(i), min |-> [has |-> FALSE, val |-> <<>>]]

ArgMin(l) == [int |-> Nullopt, min |-> [has |-> TRUE, val |-> l]]

\* cmd_run is not running: empty tables, nothing to process
NoTables == [request |-> {}, result |-> {}]

NoRun == [ops |-> <<>>, cur |-> 0, exit |-> "none", read |-> FALSE, fault |-> "none", start |-> {}]

NoSql ==
    /\ tables = NoTables
    /\ committed = [db |-> db, request |-> {}, result |-> {}]
    /\ run = NoRun

\* what the locals of a call hold between calls
IdleLocals ==
    /\ pc = "idle"
    /\ op = op_no_flow
    /\ execute = TRUE
    /\ verdict = DefaultVerdict
    /\ i_subj = Nullopt
    /\ i_obj = Nullopt
    /\ recv_in = NoRecv
    /\ trace = <<>>
    /\ pre = [subj |-> subj.integrity, obj |-> obj.integrity]
    /\ caller = "api"
    /\ arg = NoArg
    /\ result = NoResult
    /\ calc = NoCalc

Init ==
    /\ \E i \in Integrity, m \in MinSet, f \in FunProfiles :
          subj = Entity(i, m, OpsAcl(NoMap, NullAcl), f[1], f[2], f[3])
    /\ \E i \in Integrity, m \in MinSet, a \in AccessSet, f \in FunProfiles :
          obj = Entity(i, m, a, f[1], f[2], f[3])
    /\ IdleLocals
    /\ initial = [subj |-> subj.integrity, obj |-> obj.integrity]
    /\ dry = NoDry
    /\ db = NoDb
    /\ NoSql

(***************************************************************************)
(* engine::operation(), step by step.                                      *)
(***************************************************************************)
\* the caller enters operation(subj, obj, op, execute)
Call ==
    /\ pc = "idle"
    /\ \E o \in TestOps, e \in BOOLEAN :
          /\ op' = o
          /\ execute' = e
    /\ pc' = "init_verdict"
    /\ caller' = "api"
    /\ pre' = [subj |-> subj.integrity, obj |-> obj.integrity]
    /\ UNCHANGED <<subj, obj, verdict, i_subj, i_obj, recv_in, trace, dry, drv, calc, initial, sql>>

\* test_access: verdict_t verdict{}; init_verdict(...)
init_verdict ==
    /\ pc = "init_verdict"
    /\ verdict' = DefaultVerdict
    /\ trace' = Append(trace, "init_verdict")
    /\ pc' = "access_test"
    /\ UNCHANGED <<subj, obj, op, execute, i_subj, i_obj, recv_in, pre, caller, dry, drv, calc, initial, sql>>

\* test_access as it would be if the access result were stored in both flags
test_access_sets_both ==
    /\ pc = "access_test"
    /\ verdict' = [verdict EXCEPT !.access_test = controller_test(obj.access_ctrl, subj.integrity, op, "access"),
                                  !.min_test = controller_test(obj.access_ctrl, subj.integrity, op, "access")]
    /\ trace' = Append(trace, "access_test")
    /\ pc' = "after_test_access"
    /\ UNCHANGED <<subj, obj, op, execute, i_subj, i_obj, recv_in, pre, caller, dry, drv, calc, initial, sql>>

\* test_access: allow = obj.access_ctrl().test(...); verdict.access_test(allow)
test_access ==
    /\ pc = "access_test"
    /\ verdict' = [verdict EXCEPT !.access_test = controller_test(obj.access_ctrl, subj.integrity, op, "access")]
    /\ trace' = Append(trace, "access_test")
    /\ pc' = "after_test_access"
    /\ UNCHANGED <<subj, obj, op, execute, i_subj, i_obj, recv_in, pre, caller, dry, drv, calc, initial, sql>>

\* after_test_access as it would be without the return after a denied access test
after_test_access_no_return ==
    /\ pc = "after_test_access"
    /\ trace' = Append(trace, "after_test_access")
    /\ pc' = "pass_obj"
    /\ UNCHANGED <<subj, obj, op, execute, verdict, i_subj, i_obj, recv_in, pre, caller, dry, drv, calc, initial, sql>>

\* test_access: after_test_access(...); operation: if (!allow) return verdict
after_test_access ==
    /\ pc = "after_test_access"
    /\ trace' = Append(trace, "after_test_access")
    /\ pc' = IF verdict.access_test THEN "pass_obj" ELSE "done"
    /\ UNCHANGED <<subj, obj, op, execute, verdict, i_subj, i_obj, recv_in, pre, caller, dry, drv, calc, initial, sql>>

\* the argument of the reader's receiving function in pass_integrity(writer, reader)
recv_arg(writer) == IF pass_calls_recv(writer) THEN Some(pass_i_prov(writer)) ELSE Nullopt

\* if (op.is_write()) i_obj = pass_integrity(subj, obj, op)
pass_obj ==
    /\ pc = "pass_obj"
    /\ IF op.is_write
       THEN /\ i_obj' = Some(pass_integrity(subj, obj))
            /\ recv_in' = [recv_in EXCEPT !.obj = recv_arg(subj)]
            /\ trace' = Append(trace, "pass_obj")
       ELSE UNCHANGED <<i_obj, recv_in, trace>>
    /\ pc' = "pass_subj"
    /\ UNCHANGED <<subj, obj, op, execute, verdict, i_subj, pre, caller, dry, drv, calc, initial, sql>>

\* pass_subj as it would be if the subject were updated by every operation
pass_subj_always ==
    /\ pc = "pass_subj"
    /\ i_subj' = Some(pass_integrity(obj, subj))
    /\ recv_in' = [recv_in EXCEPT !.subj = recv_arg(obj)]
    /\ trace' = Append(trace, "pass_subj")
    /\ pc' = "min_test"
    /\ UNCHANGED <<subj, obj, op, execute, verdict, i_obj, pre, caller, dry, drv, calc, initial, sql>>

\* pass_subj as it would be if the subject read the object's new integrity
pass_subj_after_obj ==
    /\ pc = "pass_subj"
    /\ IF op.is_read
       THEN /\ i_subj' = Some(pass_integrity(IF i_obj.has THEN [obj EXCEPT !.integrity = i_obj.val] ELSE obj, subj))
            /\ recv_in' = [recv_in EXCEPT !.subj = recv_arg(obj)]
            /\ trace' = Append(trace, "pass_subj")
       ELSE UNCHANGED <<i_subj, recv_in, trace>>
    /\ pc' = "min_test"
    /\ UNCHANGED <<subj, obj, op, execute, verdict, i_obj, pre, caller, dry, drv, calc, initial, sql>>

\* if (op.is_read()) i_subj = pass_integrity(obj, subj, op)
pass_subj ==
    /\ pc = "pass_subj"
    /\ IF op.is_read
       THEN /\ i_subj' = Some(pass_integrity(obj, subj))
            /\ recv_in' = [recv_in EXCEPT !.subj = recv_arg(obj)]
            /\ trace' = Append(trace, "pass_subj")
       ELSE UNCHANGED <<i_subj, recv_in, trace>>
    /\ pc' = "min_test"
    /\ UNCHANGED <<subj, obj, op, execute, verdict, i_obj, pre, caller, dry, drv, calc, initial, sql>>

\* allow_min_obj as it would be if the object's new integrity were not tested
allow_min_obj_untested == TRUE

\* test_min_integrity: if (i_obj) allow_min_obj = obj.min_integrity() allows *i_obj
allow_min_obj == IF i_obj.has THEN controller_test(obj.min_integrity, i_obj.val, op, "min_obj") ELSE TRUE

\* allow_min_subj as it would be if the subject's new integrity were not tested
allow_min_subj_untested == TRUE

\* test_min_integrity: if (i_subj) allow_min_subj = subj.min_integrity() allows *i_subj
allow_min_subj == IF i_subj.has THEN controller_test(subj.min_integrity, i_subj.val, op, "min_subj") ELSE TRUE

\* test_min_integrity as it would be if a test-only call skipped the minimum test
test_min_integrity_only_executed ==
    /\ pc = "min_test"
    /\ verdict' = [verdict EXCEPT !.min_test = IF execute THEN allow_min_subj /\ allow_min_obj ELSE TRUE]
    /\ trace' = Append(trace, "min_test")
    /\ pc' = "after_test_min"
    /\ UNCHANGED <<subj, obj, op, execute, i_subj, i_obj, recv_in, pre, caller, dry, drv, calc, initial, sql>>

\* test_min_integrity: v.min_test(allow_min_subj && allow_min_obj)
test_min_integrity ==
    /\ pc = "min_test"
    /\ verdict' = [verdict EXCEPT !.min_test = allow_min_subj /\ allow_min_obj]
    /\ trace' = Append(trace, "min_test")
    /\ pc' = "after_test_min"
    /\ UNCHANGED <<subj, obj, op, execute, i_subj, i_obj, recv_in, pre, caller, dry, drv, calc, initial, sql>>

\* after_test_min as it would be without the return after a failed minimum test
after_test_min_no_return ==
    /\ pc = "after_test_min"
    /\ trace' = Append(trace, "after_test_min")
    /\ pc' = IF execute THEN "commit" ELSE "done"
    /\ UNCHANGED <<subj, obj, op, execute, verdict, i_subj, i_obj, recv_in, pre, caller, dry, drv, calc, initial, sql>>

\* after_test_min as it would be if execute were not consulted
after_test_min_always_execute ==
    /\ pc = "after_test_min"
    /\ trace' = Append(trace, "after_test_min")
    /\ pc' = IF ~(allow_min_subj /\ allow_min_obj) THEN "done" ELSE "commit"
    /\ UNCHANGED <<subj, obj, op, execute, verdict, i_subj, i_obj, recv_in, pre, caller, dry, drv, calc, initial, sql>>

\* test_min_integrity: after_test_min(...); operation: if (!...) return verdict;
\* if (execute) ...
after_test_min ==
    /\ pc = "after_test_min"
    /\ trace' = Append(trace, "after_test_min")
    /\ pc' = IF ~(allow_min_subj /\ allow_min_obj) THEN "done"
             ELSE IF execute THEN "commit" ELSE "done"
    /\ UNCHANGED <<subj, obj, op, execute, verdict, i_subj, i_obj, recv_in, pre, caller, dry, drv, calc, initial, sql>>

\* commit as it would be if the object's new integrity were not assigned
commit_subj_only ==
    /\ pc = "commit"
    /\ subj' = IF i_subj.has THEN [subj EXCEPT !.integrity = i_subj.val] ELSE subj
    /\ obj' = obj
    /\ trace' = Append(trace, "commit")
    /\ pc' = "execute_op"
    /\ UNCHANGED <<op, execute, verdict, i_subj, i_obj, recv_in, pre, caller, dry, drv, calc, initial, sql>>

\* if (i_subj) subj.integrity(*i_subj); if (i_obj) obj.integrity(*i_obj)
commit ==
    /\ pc = "commit"
    /\ subj' = IF i_subj.has THEN [subj EXCEPT !.integrity = i_subj.val] ELSE subj
    /\ obj' = IF i_obj.has THEN [obj EXCEPT !.integrity = i_obj.val] ELSE obj
    /\ trace' = Append(trace, "commit")
    /\ pc' = "execute_op"
    /\ UNCHANGED <<op, execute, verdict, i_subj, i_obj, recv_in, pre, caller, dry, drv, calc, initial, sql>>

\* execute_op(subj, obj, op, verdict): the default implementation is empty
execute_op ==
    /\ pc = "execute_op"
    /\ trace' = Append(trace, "execute_op")
    /\ pc' = "done"
    /\ UNCHANGED <<subj, obj, op, execute, verdict, i_subj, i_obj, recv_in, pre, caller, dry, drv, calc, initial, sql>>

\* the locals of the call end
EndCall ==
    /\ pc' = "idle"
    /\ op' = op_no_flow
    /\ execute' = TRUE
    /\ verdict' = DefaultVerdict
    /\ i_subj' = Nullopt
    /\ i_obj' = Nullopt
    /\ recv_in' = NoRecv
    /\ trace' = <<>>
    /\ caller' = "api"
    /\ arg' = NoArg
    /\ result' = NoResult

\* return verdict
Return ==
    /\ pc = "done"
    /\ caller = "api"
    /\ EndCall
    /\ pre' = [subj |-> subj.integrity, obj |-> obj.integrity]
    /\ dry' = NoDry
    /\ UNCHANGED <<subj, obj, db, calc, initial, sql>>

Next ==
    \/ Call
    \/ init_verdict
    \/ test_access
    \/ after_test_access
    \/ pass_obj
    \/ pass_subj
    \/ test_min_integrity
    \/ after_test_min
    \/ commit
    \/ execute_op
    \/ Return

Spec == Init /\ [][Next]_vars

(***************************************************************************)
(* Properties of engine::operation().                                      *)
(***************************************************************************)
\* operation() has returned to its caller
Returned == pc = "done"

Unchanged == subj.integrity = pre.subj /\ obj.integrity = pre.obj

\* C1: when operation() returns a verdict that is not allowed, the
\* integrities of subject and object are those from before the call, for
\* every flow class of the operation and both values of execute.
C1_DeniedLeavesIntegrities ==
    (Returned /\ ~allowed(verdict)) => Unchanged

\* a read-write operation was denied by the minimum integrity test although
\* it was to be executed and would have changed both integrities
C1_Witness ==
    /\ Returned /\ execute /\ op = op_rd_wr
    /\ verdict.access_test /\ ~verdict.min_test
    /\ i_subj.has /\ i_subj.val # pre.subj
    /\ i_obj.has /\ i_obj.val # pre.obj

\* C4: an allowed operation that is not a write leaves the object's
\* integrity unchanged and an allowed operation that is not a read leaves the
\* subject's integrity unchanged.
C4_OnlyReadersChange ==
    (Returned /\ allowed(verdict)) =>
        /\ (~op.is_write => obj.integrity = pre.obj)
        /\ (~op.is_read => subj.integrity = pre.subj)

\* an executed and allowed read changed the subject's integrity, and the
\* object's integrity differs from what a write would have made of it
C4_Witness ==
    /\ Returned /\ execute /\ allowed(verdict) /\ op = op_rd
    /\ subj.integrity # pre.subj
    /\ obj.integrity = pre.obj
    /\ pass_integrity([subj EXCEPT !.integrity = pre.subj], obj) # obj.integrity

\* C5: a call with execute = false never changes an integrity and never
\* reaches execute_op, whatever the verdict.
C5_DryRunChangesNothing ==
    (pc # "idle" /\ ~execute) => (Unchanged /\ \A k \in 1..Len(trace) : trace[k] \notin {"commit", "execute_op"})

\* a test-only call was allowed although its prospective integrities differ
\* from the current ones
C5_Witness ==
    /\ Returned /\ ~execute /\ allowed(verdict)
    /\ i_subj.has /\ i_subj.val # subj.integrity
    /\ i_obj.has /\ i_obj.val # obj.integrity

\* the steps of operation() in the order the code takes them
StepOrder ==
    <<"init_verdict", "access_test", "after_test_access", "pass_obj", "pass_subj",
      "min_test", "after_test_min", "commit", "execute_op">>

StepPos(step) == CHOOSE k \in 1..Len(StepOrder) : StepOrder[k] = step

Steps == {trace[k] : k \in 1..Len(trace)}

\* C6: the steps of one call occur in the fixed order, each at most once; a
\* failed access test ends the call before any integrity function, the
\* minimum test, after_test_min, the commit and execute_op; a failed minimum
\* test ends it before the commit and execute_op; an allowed call that is to
\* be executed takes all of them.
C6_StepOrder ==
    /\ \A j, k \in 1..Len(trace) : j < k => StepPos(trace[j]) < StepPos(trace[k])
    /\ Returned => SubSeq(trace, 1, 3) = <<"init_verdict", "access_test", "after_test_access">>
    /\ (Returned /\ ~verdict.access_test) =>
          /\ Len(trace) = 3
          /\ ~verdict.min_test
          /\ ~i_subj.has /\ ~i_obj.has /\ recv_in = NoRecv
          /\ Unchanged
    /\ (Returned /\ verdict.access_test) =>
          /\ ("pass_obj" \in Steps) = op.is_write
          /\ ("pass_subj" \in Steps) = op.is_read
          /\ {"min_test", "after_test_min"} \subseteq Steps
          /\ ({"commit", "execute_op"} \subseteq Steps) = (verdict.min_test /\ execute)
          /\ ({"commit", "execute_op"} \cap Steps = {}) = ~(verdict.min_test /\ execute)
    /\ (Returned /\ verdict.access_test /\ ~verdict.min_test) => Unchanged

\* a read-write operation that was to be executed passed the access test and
\* failed the minimum test after both integrity passes
C6_Witness ==
    /\ Returned /\ execute /\ op = op_rd_wr
    /\ verdict.access_test /\ ~verdict.min_test
    /\ trace = <<"init_verdict", "access_test", "after_test_access", "pass_obj", "pass_subj",
                 "min_test", "after_test_min">>

\* the entities as they were when the call started
subj0 == [subj EXCEPT !.integrity = pre.subj]

obj0 == [obj EXCEPT !.integrity = pre.obj]

\* C7: once the minimum test is made, min_test is the conjunction of the
\* subject part (true unless the operation reads, then the subject's minimum
\* integrity controller applied to the subject's prospective integrity) and
\* the object part (true unless the operation writes, then the object's
\* controller applied to the object's prospective integrity).
C7_MinTest ==
    ("min_test" \in Steps) =>
        /\ verdict.access_test
        /\ verdict.min_test =
              ( /\ (op.is_read => controller_test(subj.min_integrity, pass_integrity(obj0, subj0), op, "min_subj"))
                /\ (op.is_write => controller_test(obj.min_integrity, pass_integrity(subj0, obj0), op, "min_obj")) )
        /\ ((~op.is_read /\ ~op.is_write) => verdict.min_test)

\* a read-write operation whose prospective subject integrity passes and
\* whose prospective object integrity fails
C7_Witness ==
    /\ Returned /\ op = op_rd_wr /\ verdict.access_test /\ ~verdict.min_test
    /\ controller_test(subj.min_integrity, i_subj.val, op, "min_subj")
    /\ ~controller_test(obj.min_integrity, i_obj.val, op, "min_obj")

(***************************************************************************)
(* engine::pass_integrity() called on its own (it is a public member), for *)
(* a writer subj and a reader obj built with a wide family of functions.   *)
(***************************************************************************)
FunFamily ==
    { Fun("none", integrity_set_min, TRUE), Fun("none", integrity_set_min, FALSE),
      fun_min, fun_max, Fun("max", integrity_set_min, FALSE),
      Fun("meet", Set({1}), TRUE), Fun("meet", Set({1}), FALSE),
      Fun("join", Set({1}), TRUE), Fun("join", Set({1}), FALSE),
      demo_fun_identity, demo_fun_max,
      TableFun(<<Pair(Set({1}), TRUE, Set({MaxElem})), Pair(integrity_set_min, FALSE, integrity_set_min)>>) }

InitPass ==
    /\ \E i \in Integrity, tf \in {fun_identity, Fun("none", integrity_set_min, FALSE)}, pf \in FunFamily :
          subj = Entity(i, AclSingle(integrity_set_min), OpsAcl(NoMap, NullAcl), tf, pf, fun_min)
    /\ \E i \in Integrity, tf \in FunFamily, rf \in FunFamily :
          obj = Entity(i, AclSingle(integrity_set_min), OpsAcl(NoMap, NullAcl), tf, fun_min, rf)
    /\ IdleLocals
    /\ initial = [subj |-> subj.integrity, obj |-> obj.integrity]
    /\ dry = NoDry
    /\ db = NoDb
    /\ NoSql

\* i_obj = pass_integrity(subj, obj, op)
PassCall ==
    /\ pc = "idle"
    /\ op' = op_wr
    /\ i_obj' = Some(pass_integrity(subj, obj))
    /\ recv_in' = [recv_in EXCEPT !.obj = recv_arg(subj)]
    /\ pc' = "passed"
    /\ UNCHANGED <<subj, obj, execute, verdict, i_subj, trace, pre, caller, dry, drv, calc, initial, sql>>

NextPass == PassCall

SpecPass == InitPass /\ [][NextPass]_vars

\* a function that declares itself safe and obeys every limit
IsSafe(f) ==
    /\ fun_safe(f)
    /\ \A i \in Integrity, limit \in Integrity : Leq(fun_call(f, i, limit), limit)

AllSafe == IsSafe(obj.test_fun) /\ IsSafe(subj.prov_fun) /\ IsSafe(obj.recv_fun)

\* C2 as stated: with safe test, providing and receiving functions the result
\* of pass_integrity is at most the reader's integrity.
C2_PassBelowReader ==
    (pc = "passed" /\ AllSafe) => Leq(i_obj.val, obj.integrity)

\* C2 as amended: with safe test, providing and receiving functions the
\* result of pass_integrity is at most the join of the reader's and the
\* writer's integrity, and at most the reader's integrity when nothing is
\* received (the providing or the receiving function returned the minimum).
C2_PassBelowJoin ==
    (pc = "passed" /\ AllSafe) =>
        /\ Leq(i_obj.val, integrity_set_join(obj.integrity, subj.integrity))
        /\ (   \/ ~recv_in.obj.has
               \/ integrity_set_eq(fun_call(obj.recv_fun, recv_in.obj.val, recv_in.obj.val), integrity_set_min))
           => Leq(i_obj.val, obj.integrity)

\* all three functions are safe, something was received, and the result is
\* not below the reader's integrity
C2_Witness ==
    /\ pc = "passed" /\ AllSafe
    /\ recv_in.obj.has
    /\ ~Leq(i_obj.val, obj.integrity)
    /\ Leq(i_obj.val, integrity_set_join(obj.integrity, subj.integrity))

\* C3: when the writer's providing function reports unsafe, the receiving
\* function is handed p * writer.integrity, which is at most the writer's
\* integrity, whatever the safety of the writer's test function.
C3_ProvClampedByWriter ==
    (pc = "passed" /\ recv_in.obj.has /\ ~fun_safe(subj.prov_fun)) =>
        /\ recv_in.obj.val = integrity_set_meet(pass_i_prov_raw(subj), subj.integrity)
        /\ Leq(recv_in.obj.val, subj.integrity)

(***************************************************************************)
(* A caller that keeps the verdict of a test-only call (execute = false)   *)
(* and compares it with the verdict of the call that follows.              *)
(***************************************************************************)
\* return verdict, the caller keeps it when the call was test-only
ReturnKeep ==
    /\ pc = "done"
    /\ caller = "api"
    /\ EndCall
    /\ pre' = [subj |-> subj.integrity, obj |-> obj.integrity]
    /\ dry' = IF execute
              THEN NoDry
              ELSE [valid |-> TRUE, op |-> op, pre |-> pre,
                    access_test |-> verdict.access_test, min_test |-> verdict.min_test]
    /\ UNCHANGED <<subj, obj, db, calc, initial, sql>>

NextDry ==
    \/ Call
    \/ init_verdict
    \/ test_access
    \/ after_test_access
    \/ pass_obj
    \/ pass_subj
    \/ test_min_integrity
    \/ after_test_min
    \/ commit
    \/ execute_op
    \/ ReturnKeep

SpecDry == Init /\ [][NextDry]_vars

\* the call that returned executes the operation that the preceding call
\* only tested, on the same entities in the same state
AfterDryRun == Returned /\ execute /\ dry.valid /\ dry.op = op /\ dry.pre = pre

\* C10: a call with execute = true returns the access_test and min_test that
\* the test-only call of the same operation in the same state returned.
C10_DryRunPredicts ==
    AfterDryRun => (verdict.access_test = dry.access_test /\ verdict.min_test = dry.min_test)

\* a read-write operation that is denied by the minimum test, executed after
\* it was tested
C10_Witness ==
    /\ AfterDryRun /\ op = op_rd_wr
    /\ verdict.access_test /\ ~verdict.min_test
    /\ i_subj.val # pre.subj

(***************************************************************************)
(* The demonstration driver: cmd_run() of sofi_demo.  It reads the queue   *)
(* of requests from table REQUEST and, for each request in one             *)
(* transaction, deletes the request row, imports subject and object from   *)
(* the entity store, calls engine::operation(), runs the body of an        *)
(* allowed operation, exports the entities and inserts the row of table    *)
(* RESULT.  The entity store holds the entities named subj and obj, and    *)
(* the entity clone once a clone operation has exported it.                *)
(***************************************************************************)
DemoFunProfiles ==
    { <<demo_fun_identity, demo_fun_min, demo_fun_min>>,
      <<demo_fun_identity, demo_fun_max, demo_fun_max>> }

DemoMinSet == { Acl(<<integrity_set_min>>), Acl(<<Set({1})>>) }

DemoAccessSet ==
    { OpsAcl(NoMap, Acl(<<integrity_set_min>>)),
      OpsAcl([k \in {"read", "write"} |->
                 IF k = "read" THEN Acl(<<Set({1})>>) ELSE NullAcl],
             Acl(<<Universe>>)) }

ArgSet == { NoArg, ArgInt(Set({1})), ArgInt(Universe), ArgMin(<<Set({1})>>) }

\* a row of table REQUEST
Request(id, o, a) == [id |-> id, op |-> o, arg |-> a]

\* cmd_run has not started: the queue is in table REQUEST, committed
StartSql(requests) ==
    /\ tables = [request |-> requests, result |-> {}]
    /\ committed = [db |-> db, request |-> requests, result |-> {}]
    /\ run = [NoRun EXCEPT !.start = requests]

\* the locals of cmd_run before the loop
DriverLocals ==
    /\ subj = DefaultEntity
    /\ obj = DefaultEntity
    /\ IdleLocals
    /\ initial = [subj |-> db.subj.integrity, obj |-> db.obj.integrity]
    /\ dry = NoDry

\* one request of any operation with any argument, on many entities
InitDemo ==
    /\ \E si \in Integrity, sm \in DemoMinSet, sf \in DemoFunProfiles,
          oi \in Integrity, om \in DemoMinSet, oa \in DemoAccessSet, of \in DemoFunProfiles :
          db = [names |-> {"subj", "obj"},
                subj |-> Entity(si, sm, OpsAcl(NoMap, NullAcl), sf[1], sf[2], sf[3]),
                obj |-> Entity(oi, om, oa, of[1], of[2], of[3]),
                clone |-> DefaultEntity]
    /\ \E o \in DemoOps, a \in ArgSet : StartSql({Request(1, o, a)})
    /\ DriverLocals

\* SortById as it would be with "order by id desc" in the query
SortById_desc(S) ==
    LET pick[R \in SUBSET S] ==
            IF R = {} THEN <<>>
            ELSE LET m == CHOOSE r \in R : \A q \in R : r.id >= q.id
                 IN  <<m>> \o pick[R \ {m}]
    IN  pick[S]

\* select ... from request order by id
SortById(S) ==
    LET pick[R \in SUBSET S] ==
            IF R = {} THEN <<>>
            ELSE LET m == CHOOSE r \in R : \A q \in R : r.id <= q.id
                 IN  <<m>> \o pick[R \ {m}]
    IN  pick[S]

\* struct op_record: the request part, and the result member destroy (the
\* other result members are the variable result)
op_record(r) == [id |-> r.id, op |-> r.op, arg |-> r.arg, destroy |-> FALSE]

\* get_op_requests(db): the deque of op_records
get_op_requests ==
    LET rows == SortById(tables.request)
    IN  [k \in 1..Len(rows) |-> op_record(rows[k])]

\* int cmd_run: the exit code of the program
EXIT_SUCCESS == 0

EXIT_FAILURE == 1

\* the conversion of an int to bool
ToBool(n) == n # 0

ExitCode ==
    CASE run.exit = "success" -> EXIT_SUCCESS
      [] run.exit = "failure" -> EXIT_FAILURE
      [] OTHER                -> 134

\* agent::import_msg(name, e): error when no row has the name, or when
\* SQLite fails (fault names the entity whose query fails)
import_msg(name, fault) ==
    IF name \notin db.names \/ fault = name THEN "error" ELSE "success"

\* agent::export_msg(e, m): error when SQLite fails
export_msg(name, fault) ==
    IF fault = name THEN "error" ELSE "success"

\* agent_result::operator bool
ok(r) == r = "success"

\* delete from request where id = ?1
sql_del_request(id) ==
    [tables EXCEPT !.request = {r \in tables.request : r.id # id}]

\* insert into result values (...)
sql_ins_result(id) ==
    [tables EXCEPT !.result = @ \cup
        {[id |-> id, allowed |-> allowed(verdict), access |-> verdict.access_test,
          min |-> verdict.min_test, error |-> verdict.error]}]

\* insert or replace into entity, delete from entity where name = ?1
sql_put_entity(d, name, e) == [d EXCEPT ![name] = e, !.names = @ \cup {name}]

sql_del_entity(d, name) == [d EXCEPT !.names = @ \ {name}]

\* transaction::commit as it would be if the inserted row were not part of it
transaction_commit_without_result ==
    [db |-> db, request |-> tables.request, result |-> committed.result]

\* transaction::commit(): what the database holds afterwards
transaction_commit ==
    [db |-> db, request |-> tables.request, result |-> tables.result]

\* return EXIT_FAILURE as it would be if leaving the scope committed the transaction
return_failure_commits(f, d, t) ==
    /\ committed' = [db |-> d, request |-> t.request, result |-> t.result]
    /\ db' = d
    /\ tables' = t
    /\ run' = [run EXCEPT !.exit = "failure", !.fault = f, !.cur = IF pc = "idle" THEN @ + 1 ELSE @]
    /\ pc' = "exit"

\* return EXIT_FAILURE in the loop of cmd_run, with entity store d and tables
\* t written so far: ~transaction() rolls the unfinished transaction back
return_failure(f, d, t) ==
    /\ committed' = committed
    /\ db' = committed.db
    /\ tables' = [request |-> committed.request, result |-> committed.result]
    /\ run' = [run EXCEPT !.exit = "failure", !.fault = f, !.cur = IF pc = "idle" THEN @ + 1 ELSE @]
    /\ pc' = "exit"

\* cmd_run: std::deque<op_record> ops = get_op_requests(db); the assert in
\* get_op_requests fails for the first row in a build with assertions
drv_read ==
    /\ pc = "idle"
    /\ ~run.read
    /\ \E assertions \in BOOLEAN :
          IF assertions /\ tables.request # {}
          THEN /\ run' = [run EXCEPT !.read = TRUE, !.exit = "abort"]
               /\ pc' = "exit"
          ELSE /\ run' = [run EXCEPT !.read = TRUE, !.ops = get_op_requests]
               /\ pc' = pc
    /\ UNCHANGED <<subj, obj, op, execute, verdict, i_subj, i_obj, recv_in, trace, pre, caller, dry, drv, calc, initial, tables, committed>>

\* cmd_run, the loop body up to the call of the engine: begin the
\* transaction, delete the request row, import subject and object, call
\* engine.operation(subject, object, *o.op)
drv_begin ==
    /\ pc = "idle"
    /\ run.read
    /\ run.cur < Len(run.ops)
    /\ LET o == run.ops[run.cur + 1]
           t == sql_del_request(o.id)
       IN  \E fault \in {"none", "subj", "obj"} :
              IF ~ok(import_msg("subj", fault))
              THEN /\ return_failure("import_subj", db, t)
                   /\ UNCHANGED <<subj, obj, op, execute, pre, caller, arg>>
              ELSE IF ~ok(import_msg("obj", fault))
              THEN /\ return_failure("import_obj", db, t)
                   /\ UNCHANGED <<subj, obj, op, execute, pre, caller, arg>>
              ELSE /\ op' = o.op
                   /\ arg' = o.arg
                   /\ subj' = db.subj
                   /\ obj' = db.obj
                   /\ execute' = TRUE
                   /\ caller' = "driver"
                   /\ pre' = [subj |-> db.subj.integrity, obj |-> db.obj.integrity]
                   /\ tables' = t
                   /\ run' = [run EXCEPT !.cur = @ + 1, !.fault = "none"]
                   /\ pc' = "init_verdict"
                   /\ UNCHANGED <<db, committed>>
    /\ UNCHANGED <<verdict, i_subj, i_obj, recv_in, trace, dry, result, calc, initial>>

\* do_exec() of the operation: its return value; export is the result of
\* exporting the cloned entity
do_exec_ok(export) ==
    CASE op.key = "set_integrity"     -> arg.int.has
      [] op.key = "set_min_integrity" -> arg.min.has
      [] op.key = "clone"             -> IF ~ok(export) THEN ToBool(EXIT_FAILURE) ELSE TRUE
      [] OTHER                        -> TRUE

\* do_exec() of the operation: the object it leaves
do_exec_obj ==
    CASE op.key = "set_integrity" /\ arg.int.has     -> [obj EXCEPT !.integrity = arg.int.val]
      [] op.key = "set_min_integrity" /\ arg.min.has -> [obj EXCEPT !.min_integrity = Acl(arg.min.val)]
      [] OTHER                                       -> obj

\* do_exec() of the operation: the entity store it leaves
do_exec_db(export) ==
    IF op.key = "clone" /\ ok(export) THEN sql_put_entity(db, "clone", obj) ELSE db

\* cmd_run: if (verdict) o.op->execute(subject, object, o.arg, verdict)
drv_execute ==
    /\ pc = "done"
    /\ caller = "driver"
    /\ IF allowed(verdict)
       THEN \E fault \in (IF op.key = "clone" THEN {"none", "clone"} ELSE {"none"}) :
               LET export == export_msg("clone", fault)
               IN  /\ obj' = do_exec_obj
                   /\ db' = do_exec_db(export)
                   /\ verdict' = [verdict EXCEPT !.error = ~do_exec_ok(export),
                                                 !.destroy = do_exec_ok(export) /\ op.key = "destroy"]
                   /\ run' = [run EXCEPT !.fault = IF ok(export) THEN @ ELSE "export_clone"]
       ELSE UNCHANGED <<obj, verdict, db, run>>
    /\ pc' = "drv_export"
    /\ UNCHANGED <<subj, op, execute, i_subj, i_obj, recv_in, trace, pre, caller, dry, arg, result, calc, initial, tables, committed>>

\* drv_export as it would be if a failed body made the driver keep the stored entities
drv_export_not_on_error ==
    /\ pc = "drv_export"
    /\ result' = [written |-> TRUE, allowed |-> allowed(verdict), access |-> verdict.access_test,
                  min |-> verdict.min_test, error |-> verdict.error]
    /\ db' = IF verdict.error THEN db ELSE sql_put_entity(sql_put_entity(db, "subj", subj), "obj", obj)
    /\ tables' = sql_ins_result(run.ops[run.cur].id)
    /\ pc' = "drv_done"
    /\ UNCHANGED <<subj, obj, op, execute, verdict, i_subj, i_obj, recv_in, trace, pre, caller, dry, arg, calc, initial, committed, run>>

\* cmd_run, the loop body after the body of the operation: fill the result
\* members of o, export the subject, delete or export the object, insert
\* the result row
drv_export ==
    /\ pc = "drv_export"
    /\ result' = [written |-> TRUE, allowed |-> allowed(verdict), access |-> verdict.access_test,
                  min |-> verdict.min_test, error |-> verdict.error]
    /\ LET o == run.ops[run.cur]
           db_subj == sql_put_entity(db, "subj", subj)
       IN  \E fault \in {"none", "subj", "obj"} :
              IF ~ok(export_msg("subj", fault))
              THEN return_failure("export_subj", db, tables)
              ELSE IF o.destroy
              THEN /\ db' = sql_del_entity(db_subj, "obj")
                   /\ tables' = sql_ins_result(o.id)
                   /\ pc' = "drv_done"
                   /\ UNCHANGED <<committed, run>>
              ELSE IF ~ok(export_msg("obj", fault))
              THEN return_failure("export_obj", db_subj, tables)
              ELSE /\ db' = sql_put_entity(db_subj, "obj", obj)
                   /\ tables' = sql_ins_result(o.id)
                   /\ pc' = "drv_done"
                   /\ UNCHANGED <<committed, run>>
    /\ UNCHANGED <<subj, obj, op, execute, verdict, i_subj, i_obj, recv_in, trace, pre, caller, dry, arg, calc, initial>>

\* cmd_run: tr.commit(), the end of the loop body
drv_commit ==
    /\ pc = "drv_done"
    /\ EndCall
    /\ subj' = DefaultEntity
    /\ obj' = DefaultEntity
    /\ pre' = [subj |-> DefaultEntity.integrity, obj |-> DefaultEntity.integrity]
    /\ committed' = transaction_commit
    /\ UNCHANGED <<dry, db, calc, initial, tables, run>>

\* cmd_run: return EXIT_SUCCESS after the loop
drv_exit ==
    /\ pc = "idle"
    /\ run.read
    /\ run.cur = Len(run.ops)
    /\ run' = [run EXCEPT !.exit = "success"]
    /\ pc' = "exit"
    /\ UNCHANGED <<subj, obj, op, execute, verdict, i_subj, i_obj, recv_in, trace, pre, caller, dry, drv, calc, initial, tables, committed>>

NextDemo ==
    \/ drv_read
    \/ drv_begin
    \/ init_verdict
    \/ test_access
    \/ after_test_access
    \/ pass_obj
    \/ pass_subj
    \/ test_min_integrity
    \/ after_test_min
    \/ commit
    \/ execute_op
    \/ drv_execute
    \/ drv_export
    \/ drv_commit
    \/ drv_exit

SpecDemo == InitDemo /\ [][NextDemo]_vars

\* the integrities the engine assigns in an allowed, executed call
NewSubj == IF op.is_read THEN pass_integrity(obj0, subj0) ELSE pre.subj

NewObj == IF op.is_write THEN pass_integrity(subj0, obj0) ELSE pre.obj

\* the body of the operation is about to run: execute_op of the engine, or
\* operation::execute called by the driver
BodyNext ==
    \/ pc = "execute_op"
    \/ pc = "done" /\ caller = "driver" /\ allowed(verdict)

\* C8: when the body of an allowed, executed operation is invoked
\* (execute_op, and operation::execute in the driver), subject and object
\* already hold the new integrities.
C8_CommitBeforeBody ==
    BodyNext => (subj.integrity = NewSubj /\ obj.integrity = NewObj /\ "commit" \in Steps)

\* the driver is about to run the body of a swap that changed both integrities
C8_Witness ==
    /\ pc = "done" /\ caller = "driver" /\ allowed(verdict) /\ op.key = "swap"
    /\ subj.integrity # pre.subj
    /\ obj.integrity # pre.obj

\* C9: when the body of an allowed operation fails, only verdict.error
\* records it: access_test, min_test and allowed stay true, the result row
\* says so, and the integrities committed by the engine are the ones held
\* by the entities and stored in the database.
C9_ErrorKeepsCommit ==
    (pc = "drv_done" /\ verdict.error) =>
        /\ verdict.access_test /\ verdict.min_test /\ allowed(verdict)
        /\ result = [written |-> TRUE, allowed |-> TRUE, access |-> TRUE, min |-> TRUE, error |-> TRUE]
        /\ subj.integrity = NewSubj /\ obj.integrity = NewObj
        /\ db.subj.integrity = NewSubj /\ db.obj.integrity = NewObj

\* set_integrity with an invalid argument failed after the engine had
\* changed the object's integrity
C9_Witness ==
    /\ pc = "drv_done" /\ verdict.error /\ op.key = "set_integrity"
    /\ db.obj.integrity # pre.obj

(***************************************************************************)
(* simple_verdict as an object of its own: a default constructed verdict   *)
(* on which the caller calls the two setters in any order.                 *)
(***************************************************************************)
\* the longest sequence of setter calls made on one verdict
MaxCalls == 5

InitVerdict ==
    /\ subj = DefaultEntity
    /\ obj = DefaultEntity
    /\ IdleLocals
    /\ initial = [subj |-> subj.integrity, obj |-> obj.integrity]
    /\ dry = NoDry
    /\ db = NoDb
    /\ NoSql

\* void access_test(bool val)
verdict_access_test ==
    /\ pc = "idle"
    /\ Len(trace) < MaxCalls
    /\ \E val \in BOOLEAN : verdict' = [verdict EXCEPT !.access_test = val]
    /\ trace' = Append(trace, "access_test")
    /\ UNCHANGED <<subj, obj, pc, op, execute, i_subj, i_obj, recv_in, pre, caller, dry, drv, calc, initial, sql>>

\* void min_test(bool val)
verdict_min_test ==
    /\ pc = "idle"
    /\ Len(trace) < MaxCalls
    /\ \E val \in BOOLEAN : verdict' = [verdict EXCEPT !.min_test = val]
    /\ trace' = Append(trace, "min_test")
    /\ UNCHANGED <<subj, obj, pc, op, execute, i_subj, i_obj, recv_in, pre, caller, dry, drv, calc, initial, sql>>

NextVerdict == verdict_access_test \/ verdict_min_test

SpecVerdict == InitVerdict /\ [][NextVerdict]_vars

\* C11: allowed() is true exactly when access_test and min_test are both
\* true; a default constructed verdict is (false, false); a verdict on which
\* at most one of the two setters has been called is not allowed.
C11_AllowedIffBoth ==
    /\ allowed(verdict) <=> (verdict.access_test = TRUE /\ verdict.min_test = TRUE)
    /\ trace = <<>> => (verdict.access_test = FALSE /\ verdict.min_test = FALSE)
    /\ ~({"access_test", "min_test"} \subseteq Steps) => ~allowed(verdict)

\* only access_test has been set, to true
C11_Witness ==
    /\ Steps = {"access_test"}
    /\ verdict.access_test
    /\ ~verdict.min_test
    /\ ~allowed(verdict)

(***************************************************************************)
(* The writes of the two verdict flags during one call of operation().     *)
(***************************************************************************)
\* how many times the running call has taken a step
Count(step) == Cardinality({k \in 1..Len(trace) : trace[k] = step})

\* a flag of the verdict changes only in the step that stores it (or when
\* the verdict object ends with the call)
FlagWrites ==
    /\ verdict'.access_test # verdict.access_test => (pc = "access_test" \/ pc' = "idle")
    /\ verdict'.min_test # verdict.min_test => (pc = "min_test" \/ pc' = "idle")

\* the value each flag holds once its step has been taken
FlagValues ==
    /\ "access_test" \in Steps =>
          verdict.access_test = controller_test(obj0.access_ctrl, subj0.integrity, op, "access")
    /\ "min_test" \in Steps => verdict.min_test = (allow_min_subj /\ allow_min_obj)

\* C12 as stated: every call stores access_test once and min_test once.
C12_BothSetOnce ==
    Returned => (Count("access_test") = 1 /\ Count("min_test") = 1)

\* C12: a call stores access_test exactly once, the result of the object's
\* access controller; it stores min_test exactly once, the result of the two
\* minimum tests, when the access test passed, and never when it failed
\* (min_test then keeps its default false); no other step changes a flag.
C12_SetOncePerStep ==
    /\ [](/\ Count("access_test") <= 1
          /\ Count("min_test") <= 1
          /\ FlagValues
          /\ Returned => /\ Count("access_test") = 1
                         /\ Count("min_test") = (IF verdict.access_test THEN 1 ELSE 0)
                         /\ ~verdict.access_test => ~verdict.min_test)
    /\ [][FlagWrites]_vars

\* a returned call that stored both flags, the second one false
C12_Witness ==
    /\ Returned
    /\ Count("access_test") = 1
    /\ Count("min_test") = 1
    /\ verdict.access_test
    /\ ~verdict.min_test

(***************************************************************************)
(* The access controllers called directly: test(subj, op, v, kind) of      *)
(* acl_single, acl and ops_acl objects built by the caller.                *)
(***************************************************************************)
\* the longest list of an acl
MaxList == 2

SingleSet == {AclSingle(i) : i \in Integrity}

ListSet == {Acl(l) : l \in UNION {[1..n -> Integrity] : n \in 0..MaxList}}

\* the values of an ops_acl map and of default_op: null, or a list of at most one integrity
InnerSet == {NullAcl} \cup {Acl(l) : l \in UNION {[1..n -> Integrity] : n \in 0..1}}

OpsSet ==
    {OpsAcl(m, d) : m \in UNION {[K -> InnerSet] : K \in SUBSET {"test_rd", "test_wr"}},
                    d \in InnerSet}

ControllerFamily == SingleSet \cup ListSet \cup OpsSet

InitAcl ==
    /\ subj = DefaultEntity
    /\ obj = DefaultEntity
    /\ IdleLocals
    /\ initial = [subj |-> subj.integrity, obj |-> obj.integrity]
    /\ dry = NoDry
    /\ db = NoDb
    /\ NoSql

\* ctrl.test(subj, op, v, kind)
acl_call ==
    /\ pc = "idle"
    /\ calc.fn = "none"
    /\ \E a \in ControllerFamily, i \in Integrity, o \in TestOps, k \in ControllerTest :
          calc' = [fn |-> "test", ctrl |-> a, subj |-> i, op |-> o, kind |-> k,
                   out |-> controller_test(a, i, o, k)]
    /\ UNCHANGED <<subj, obj, pc, op, execute, verdict, i_subj, i_obj, recv_in, trace, pre, caller,
                   dry, drv, initial, sql>>

NextAcl == acl_call

SpecAcl == InitAcl /\ [][NextAcl]_vars

\* the order of the lattice of sets with a top element: a is below b
Below(a, b) == b.u \/ (~a.u /\ a.s \subseteq b.s)

\* C13: every controller is monotone: when test() allows an integrity it
\* allows, for the same operation and kind, every greater integrity.
C13_Monotone ==
    (calc.fn = "test" /\ calc.out) =>
        \A i2 \in Integrity :
            Below(calc.subj, i2) => controller_test(calc.ctrl, i2, calc.op, calc.kind)

\* a per-operation controller allowed an integrity that has greater ones
C13_Witness ==
    /\ calc.fn = "test"
    /\ calc.ctrl.kind = "ops"
    /\ calc.out
    /\ \E i2 \in Integrity : Below(calc.subj, i2) /\ i2 # calc.subj

\* C14: ops_acl decides by op.key(): a present key with a controller gives
\* that controller's result, a present key with a null controller denies
\* (whatever the default would say), an absent key gives the default's
\* result, an absent key with a null default denies.
C14_PerOp ==
    (calc.fn = "test" /\ calc.ctrl.kind = "ops") =>
        LET m == calc.ctrl.map
            d == calc.ctrl.default_op
            key == calc.op.key
            inner(a) == \E k \in 1..Len(a.l) : Below(a.l[k], calc.subj)
        IN  calc.out =
               CASE key \in DOMAIN m /\ m[key] # NullAcl    -> inner(m[key])
                 [] key \in DOMAIN m /\ m[key] = NullAcl    -> FALSE
                 [] key \notin DOMAIN m /\ d # NullAcl      -> inner(d)
                 [] OTHER                                   -> FALSE

\* the key is present with a null controller, the default would allow, the
\* result is deny
C14_Witness ==
    /\ calc.fn = "test"
    /\ calc.ctrl.kind = "ops"
    /\ calc.op.key \in DOMAIN calc.ctrl.map
    /\ calc.ctrl.map[calc.op.key] = NullAcl
    /\ calc.ctrl.default_op # NullAcl
    /\ acl_test(calc.ctrl.default_op, calc.subj, calc.op, calc.kind)
    /\ ~calc.out

\* C15: a list allows exactly when one of its integrities is below the
\* subject's (so the empty list denies), a single integrity allows exactly
\* when it is below the subject's; neither looks at the operation or at the
\* kind of test.
C15_ListAndSingle ==
    /\ (calc.fn = "test" /\ calc.ctrl.kind = "list") =>
          /\ calc.out = (\E k \in 1..Len(calc.ctrl.l) : Below(calc.ctrl.l[k], calc.subj))
          /\ calc.ctrl.l = <<>> => ~calc.out
    /\ (calc.fn = "test" /\ calc.ctrl.kind = "single") =>
          calc.out = Below(calc.ctrl.integrity, calc.subj)
    /\ (calc.fn = "test" /\ calc.ctrl.kind \in {"list", "single"}) =>
          \A o2 \in TestOps, k2 \in ControllerTest :
              controller_test(calc.ctrl, calc.subj, o2, k2) = calc.out

\* a list whose first integrity is not below the subject's and whose second is
C15_Witness ==
    /\ calc.fn = "test"
    /\ calc.ctrl.kind = "list"
    /\ Len(calc.ctrl.l) = 2
    /\ ~Below(calc.ctrl.l[1], calc.subj)
    /\ Below(calc.ctrl.l[2], calc.subj)
    /\ calc.out

(***************************************************************************)
(* The integrity functions called directly: operator()(i, limit, op) and   *)
(* safe() of objects of the three wrapper types, made by a factory, by     *)
(* default construction or from a target function of the caller.           *)
(***************************************************************************)
\* the target functions the caller wraps
Targets(safe) ==
    {Fun(k, c, safe) : k \in {"const", "join", "meet"}, c \in Integrity} \cup {Fun("max", integrity_set_min, safe)}

\* every object of a wrapper type: how it was made, and the function
FunObject(type, factory, f) == [type |-> type, factory |-> factory, f |-> f]

DynObjects ==
    {FunObject("dyn_integrity_fun", "min", fun_min),
     FunObject("dyn_integrity_fun", "identity", fun_identity),
     FunObject("dyn_integrity_fun", "max", fun_max)}
    \cup {FunObject("dyn_integrity_fun", "default", Fun("none", integrity_set_min, s)) : s \in BOOLEAN}
    \cup {FunObject("dyn_integrity_fun", "target", f) : f \in Targets(TRUE) \cup Targets(FALSE)}

FixedObjects(Safe) ==
    LET type == IF Safe THEN "integrity_fun<true>" ELSE "integrity_fun<false>"
    IN  {FunObject(type, "min", integrity_fun_min(Safe)),
         FunObject(type, "identity", integrity_fun_identity(Safe)),
         FunObject(type, "max", integrity_fun_max(Safe)),
         FunObject(type, "default", Fun("none", integrity_set_min, Safe))}
        \cup {FunObject(type, "target", f) : f \in Targets(Safe)}

SafeObjects ==
    {FunObject("safe_integrity_fun", "min", fun_min),
     FunObject("safe_integrity_fun", "identity", fun_identity),
     FunObject("safe_integrity_fun", "max", fun_max),
     FunObject("safe_integrity_fun", "default", Fun("none", integrity_set_min, TRUE))}
    \cup {FunObject("safe_integrity_fun", "target", f) : f \in Targets(TRUE)}

FunObjects == DynObjects \cup FixedObjects(TRUE) \cup FixedObjects(FALSE) \cup SafeObjects

InitFun ==
    /\ subj = DefaultEntity
    /\ obj = DefaultEntity
    /\ IdleLocals
    /\ initial = [subj |-> subj.integrity, obj |-> obj.integrity]
    /\ dry = NoDry
    /\ db = NoDb
    /\ NoSql

\* f(i, limit, op) and f.safe()
fun_call_step ==
    /\ pc = "idle"
    /\ calc.fn = "none"
    /\ \E o \in FunObjects, i \in Integrity, limit \in Integrity :
          calc' = [fn |-> "fun", type |-> o.type, factory |-> o.factory, f |-> o.f,
                   i |-> i, limit |-> limit,
                   out |-> fun_call(o.f, i, limit), safe |-> fun_safe(o.f)]
    /\ UNCHANGED <<subj, obj, pc, op, execute, verdict, i_subj, i_obj, recv_in, trace, pre, caller,
                   dry, drv, initial, sql>>

NextFun == fun_call_step

SpecFun == InitFun /\ [][NextFun]_vars

\* what min(), identity() and max() are to return
FactoryResult(factory, i, limit) ==
    CASE factory = "min"      -> integrity_set_min
      [] factory = "identity" -> integrity_set_meet(i, limit)
      [] factory = "max"      -> limit

Factories == {"min", "identity", "max"}

C17_SafeFunBelowLimit ==
    (calc.fn = "fun" /\ calc.type = "safe_integrity_fun") =>
        /\ calc.safe
        /\ calc.out = (IF calc.f.kind = "none"
                       THEN integrity_set_meet(calc.i, calc.limit)
                       ELSE integrity_set_meet(fun_call(calc.f, calc.i, calc.limit), calc.limit))
        /\ Below(calc.out, calc.limit)

(***************************************************************************)
(* demo::integrity_fun called directly on tables built by the caller.      *)
(***************************************************************************)
\* the longest table
MaxTab == 2

Pairs ==
    {Pair(first, FALSE, integrity_set_min) : first \in Integrity}
    \cup {Pair(first, TRUE, second) : first \in Integrity, second \in Integrity}

Tables == UNION {[1..n -> Pairs] : n \in 0..MaxTab}

TableObjects ==
    {FunObject("demo::integrity_fun", "min", demo_fun_min),
     FunObject("demo::integrity_fun", "identity", demo_fun_identity),
     FunObject("demo::integrity_fun", "max", demo_fun_max)}
    \cup {FunObject("demo::integrity_fun", "table", TableFun(tab)) : tab \in Tables}

InitTable ==
    /\ subj = DefaultEntity
    /\ obj = DefaultEntity
    /\ IdleLocals
    /\ initial = [subj |-> subj.integrity, obj |-> obj.integrity]
    /\ dry = NoDry
    /\ db = NoDb
    /\ NoSql

\* f(i, limit, op) and f.safe() of a demo::integrity_fun
table_call_step ==
    /\ pc = "idle"
    /\ calc.fn = "none"
    /\ \E o \in TableObjects, i \in Integrity, limit \in Integrity :
          calc' = [fn |-> "table", type |-> o.type, factory |-> o.factory, f |-> o.f,
                   i |-> i, limit |-> limit,
                   out |-> fun_call(o.f, i, limit), safe |-> fun_safe(o.f)]
    /\ UNCHANGED <<subj, obj, pc, op, execute, verdict, i_subj, i_obj, recv_in, trace, pre, caller,
                   dry, drv, initial, sql>>

NextTable == table_call_step

SpecTable == InitTable /\ [][NextTable]_vars

\* the join of what the applicable pairs of a table add, met with limit,
\* written with sets
TableResult(tab, i, limit) ==
    LET applicable == {k \in 1..Len(tab) : Below(tab[k].first, i)}
        added(k) == IF tab[k].has_second THEN tab[k].second ELSE i
        joined == IF \E k \in applicable : added(k).u
                  THEN Universe
                  ELSE Set(UNION {added(k).s : k \in applicable})
    IN  IF limit.u THEN joined
        ELSE IF joined.u THEN limit
        ELSE Set(joined.s \cap limit.s)

\* C18: the table function returns the meet with limit of the join, over
\* the pairs whose first integrity is below i, of the second integrity (of i
\* when the second is absent), starting from I::min; it is safe and its
\* result is below limit; the tables of min(), identity() and max() give
\* I::min, i * limit and limit.
C18_TableFun ==
    calc.fn = "table" =>
        /\ calc.out = TableResult(calc.f.tab, calc.i, calc.limit)
        /\ Below(calc.out, calc.limit)
        /\ calc.safe
        /\ calc.factory \in Factories =>
              calc.out = FactoryResult(calc.factory, calc.i, calc.limit)
        /\ demo_fun_min.tab = <<>>
        /\ demo_fun_identity.tab = <<Pair(integrity_set_min, FALSE, integrity_set_min)>>
        /\ demo_fun_max.tab = <<Pair(integrity_set_min, TRUE, Universe)>>

\* a table of two pairs, the first not applicable, the second adding i,
\* called with an i that limit cuts
C18_Witness ==
    /\ calc.fn = "table"
    /\ calc.factory = "table"
    /\ Len(calc.f.tab) = 2
    /\ ~Below(calc.f.tab[1].first, calc.i)
    /\ Below(calc.f.tab[2].first, calc.i)
    /\ ~calc.f.tab[2].has_second
    /\ ~Below(calc.i, calc.limit)
    /\ calc.out # integrity_set_min

(***************************************************************************)
(* The five integrity types as lattices.  A value carries its type t:      *)
(*   single  integrity_single, the one-element lattice                     *)
(*   linear  integrity_linear<int, 0, MaxElem>                             *)
(*   bitset  integrity_bitset<MaxElem>, bits is the set of bits that are 1 *)
(*   set     integrity_set<T>                                              *)
(*   shared  integrity_shared<integrity_set<T>>: p names the storage the   *)
(*           shared pointer refers to, val is the value stored there       *)
(***************************************************************************)
SingleVals == {[t |-> "single"]}

LinearVals == {[t |-> "linear", v |-> n] : n \in 0..MaxElem}

BitsetVals == {[t |-> "bitset", bits |-> B] : B \in SUBSET Elems}

SetVals == {[t |-> "set", val |-> v] : v \in Integrity}

\* storage <<v, k>> is the k-th allocation holding v; <<v, 0>> is the one
\* made for a result
Shared(p) == [t |-> "shared", p |-> p, val |-> p[1]]

SharedVals == {Shared(<<v, k>>) : v \in Integrity, k \in 1..2}

Variants == {SingleVals, LinearVals, BitsetVals, SetVals, SharedVals}

\* integrity_bitset::operator<=> as it would be with less and greater exchanged
integrity_bitset_cmp_swapped(a, b) ==
    IF a.bits = b.bits THEN "equivalent"
    ELSE LET intersect == a.bits \cap b.bits
         IN  IF intersect = a.bits THEN "greater"
             ELSE IF intersect = b.bits THEN "less"
             ELSE "unordered"

integrity_bitset_cmp(a, b) ==
    IF a.bits = b.bits THEN "equivalent"
    ELSE LET intersect == a.bits \cap b.bits
         IN  IF intersect = a.bits THEN "less"
             ELSE IF intersect = b.bits THEN "greater"
             ELSE "unordered"

\* the defaulted operator<=> of integrity_linear compares val
integrity_linear_cmp(a, b) ==
    IF a.v < b.v THEN "less" ELSE IF a.v > b.v THEN "greater" ELSE "equivalent"

integrity_shared_join(a, b) ==
    LET r == integrity_set_join(a.val, b.val)
    IN  IF integrity_set_eq(r, a.val) THEN a
        ELSE IF integrity_set_eq(r, b.val) THEN b
        ELSE Shared(<<r, 0>>)

integrity_shared_meet(a, b) ==
    LET r == integrity_set_meet(a.val, b.val)
    IN  IF integrity_set_eq(r, a.val) THEN a
        ELSE IF integrity_set_eq(r, b.val) THEN b
        ELSE Shared(<<r, 0>>)

\* operator<=>, operator==, operator+, operator*, min() and max() of the type of a
lat_cmp(a, b) ==
    CASE a.t = "single" -> "equivalent"
      [] a.t = "linear" -> integrity_linear_cmp(a, b)
      [] a.t = "bitset" -> integrity_bitset_cmp(a, b)
      [] a.t = "set"    -> integrity_set_cmp(a.val, b.val)
      [] a.t = "shared" -> integrity_set_cmp(a.val, b.val)

lat_eq(a, b) ==
    CASE a.t = "single" -> TRUE
      [] a.t = "linear" -> a.v = b.v
      [] a.t = "bitset" -> a.bits = b.bits
      [] a.t = "set"    -> integrity_set_eq(a.val, b.val)
      [] a.t = "shared" -> integrity_set_eq(a.val, b.val)

lat_join(a, b) ==
    CASE a.t = "single" -> [t |-> "single"]
      [] a.t = "linear" -> [t |-> "linear", v |-> IF a.v < b.v THEN b.v ELSE a.v]
      [] a.t = "bitset" -> [t |-> "bitset", bits |-> a.bits \cup b.bits]
      [] a.t = "set"    -> [t |-> "set", val |-> integrity_set_join(a.val, b.val)]
      [] a.t = "shared" -> integrity_shared_join(a, b)

lat_meet(a, b) ==
    CASE a.t = "single" -> [t |-> "single"]
      [] a.t = "linear" -> [t |-> "linear", v |-> IF b.v < a.v THEN b.v ELSE a.v]
      [] a.t = "bitset" -> [t |-> "bitset", bits |-> a.bits \cap b.bits]
      [] a.t = "set"    -> [t |-> "set", val |-> integrity_set_meet(a.val, b.val)]
      [] a.t = "shared" -> integrity_shared_meet(a, b)

lat_min(a) ==
    CASE a.t = "single" -> [t |-> "single"]
      [] a.t = "linear" -> [t |-> "linear", v |-> 0]
      [] a.t = "bitset" -> [t |-> "bitset", bits |-> {}]
      [] a.t = "set"    -> [t |-> "set", val |-> integrity_set_min]
      [] a.t = "shared" -> Shared(<<integrity_set_min, 0>>)

lat_max(a) ==
    CASE a.t = "single" -> [t |-> "single"]
      [] a.t = "linear" -> [t |-> "linear", v |-> MaxElem]
      [] a.t = "bitset" -> [t |-> "bitset", bits |-> Elems]
      [] a.t = "set"    -> [t |-> "set", val |-> integrity_set_max]
      [] a.t = "shared" -> Shared(<<integrity_set_max, 0>>)

\* a <= b as the compiler derives it from operator<=>
lat_leq(a, b) == lat_cmp(a, b) \in {"less", "equivalent"}

InitLattice ==
    /\ subj = DefaultEntity
    /\ obj = DefaultEntity
    /\ IdleLocals
    /\ initial = [subj |-> subj.integrity, obj |-> obj.integrity]
    /\ dry = NoDry
    /\ db = NoDb
    /\ NoSql

\* the caller joins, meets and compares values a, b, c of one type
lattice_call ==
    /\ pc = "idle"
    /\ calc.fn = "none"
    /\ \E V \in Variants : \E a \in V, b \in V, c \in V :
          calc' = [fn |-> "lattice", a |-> a, b |-> b, c |-> c,
                   join |-> lat_join(a, b), meet |-> lat_meet(a, b),
                   cmp |-> lat_cmp(a, b), eq |-> lat_eq(a, b)]
    /\ UNCHANGED <<subj, obj, pc, op, execute, verdict, i_subj, i_obj, recv_in, trace, pre, caller,
                   dry, drv, initial, sql>>

NextLattice == lattice_call

SpecLattice == InitLattice /\ [][NextLattice]_vars

\* C19: in every integrity type join and meet are idempotent, commutative
\* and associative, absorb each other, and min and max are their
\* identities and the bounds of the order.
C19_LatticeLaws ==
    calc.fn = "lattice" =>
        LET a == calc.a
            b == calc.b
            c == calc.c
        IN  /\ lat_eq(lat_join(a, a), a)
            /\ lat_eq(lat_meet(a, a), a)
            /\ lat_eq(calc.join, lat_join(b, a))
            /\ lat_eq(calc.meet, lat_meet(b, a))
            /\ lat_eq(lat_join(calc.join, c), lat_join(a, lat_join(b, c)))
            /\ lat_eq(lat_meet(calc.meet, c), lat_meet(a, lat_meet(b, c)))
            /\ lat_eq(lat_join(a, calc.meet), a)
            /\ lat_eq(lat_meet(a, calc.join), a)
            /\ lat_eq(lat_join(lat_min(a), a), a)
            /\ lat_eq(lat_meet(lat_max(a), a), a)
            /\ lat_leq(lat_min(a), a)
            /\ lat_leq(a, lat_max(a))

\* sets a and b that are unordered, and c the universe
C19_Witness ==
    /\ calc.fn = "lattice"
    /\ calc.a.t = "set"
    /\ calc.cmp = "unordered"
    /\ calc.c.val = Universe
    /\ calc.join.val # calc.a.val
    /\ calc.meet.val # calc.a.val

\* C20: in every integrity type a <= b holds exactly when a + b = b, and
\* exactly when a * b = a.
C20_OrderAgrees ==
    calc.fn = "lattice" =>
        /\ lat_leq(calc.a, calc.b) <=> lat_eq(calc.join, calc.b)
        /\ lat_leq(calc.a, calc.b) <=> lat_eq(calc.meet, calc.a)
        /\ (calc.cmp = "equivalent") <=> calc.eq

\* shared values in different storage, a a set and b the universe: the join
\* shares the storage of b, the meet that of a
C20_Witness ==
    /\ calc.fn = "lattice"
    /\ calc.a.t = "shared"
    /\ calc.a.p # calc.b.p
    /\ ~calc.a.val.u
    /\ calc.b.val.u
    /\ calc.cmp = "less"
    /\ calc.join.p = calc.b.p
    /\ calc.meet.p = calc.a.p

\* a < b and a > b, as the compiler derives them from operator<=>
Lt(a, b) == integrity_set_cmp(a, b) = "less"

Gt(a, b) == integrity_set_cmp(a, b) = "greater"

\* C21: for integrity_set the universe is strictly greater than every set,
\* also than the set of all elements; two values compare equivalent only
\* when they are equal, less or greater exactly when one is a proper subset
\* of the other, and unordered otherwise, and then none of <, <=, >, >=
\* holds.
C21_SetOrder ==
    (calc.fn = "lattice" /\ calc.a.t = "set") =>
        LET a == calc.a.val
            b == calc.b.val
            same == a.u = b.u /\ (~a.u => a.s = b.s)
            proper(x, y) == (~x.u /\ y.u) \/ (~x.u /\ ~y.u /\ x.s \subseteq y.s /\ x.s # y.s)
        IN  /\ (a.u /\ ~b.u) => (calc.cmp = "greater" /\ Gt(a, b) /\ ~Leq(a, b) /\ ~calc.eq)
            /\ (calc.cmp = "equivalent") <=> same
            /\ calc.eq <=> same
            /\ (calc.cmp = "less") <=> proper(a, b)
            /\ (calc.cmp = "greater") <=> proper(b, a)
            /\ (calc.cmp = "unordered") <=> (~same /\ ~proper(a, b) /\ ~proper(b, a))
            /\ (calc.cmp = "unordered") =>
                  (~Lt(a, b) /\ ~Leq(a, b) /\ ~Gt(a, b) /\ ~Geq(a, b))

\* the universe compared with the set of all elements
C21_Witness ==
    /\ calc.fn = "lattice"
    /\ calc.a.t = "set"
    /\ calc.a.val = Universe
    /\ calc.b.val = Set(Elems)
    /\ calc.cmp = "greater"

(***************************************************************************)
(* Entities that start above their own minimum integrity.                  *)
(***************************************************************************)
\* the integrity of e is allowed by the minimum integrity controller of e
PassesOwnMin(e, kind) ==
    \A o \in TestOps : controller_test(e.min_integrity, e.integrity, o, kind)

InitMin ==
    /\ Init
    /\ PassesOwnMin(subj, "min_subj")
    /\ PassesOwnMin(obj, "min_obj")

SpecMin == InitMin /\ [][Next]_vars

DefaultFunProfiles ==
    { <<fun_identity, fun_min, fun_min>>,
      <<fun_identity, fun_min, Fun("join", Set({1}), FALSE)>>,
      <<integrity_fun_identity(FALSE), integrity_fun_min(FALSE), integrity_fun_max(FALSE)>>,
      <<demo_fun_identity, demo_fun_min, demo_fun_max>> }

InitDefault ==
    /\ \E i \in Integrity, m \in MinSet, f \in DefaultFunProfiles :
          subj = Entity(i, m, OpsAcl(NoMap, NullAcl), f[1], f[2], f[3])
    /\ \E i \in Integrity, m \in MinSet, a \in AccessSet, f \in DefaultFunProfiles :
          obj = Entity(i, m, a, f[1], f[2], f[3])
    /\ IdleLocals
    /\ initial = [subj |-> subj.integrity, obj |-> obj.integrity]
    /\ dry = NoDry
    /\ db = NoDb
    /\ NoSql

SpecDefault == InitDefault /\ [][Next]_vars

\* C27: with test_fun = identity and prov_fun = min in every entity, each
\* integrity is at most the initial one after any sequence of calls: an
\* allowed, executed read sets the subject to subject * object, an allowed,
\* executed write sets the object to object * subject, and nothing else is
\* assigned.
C27_NeverRaised ==
    /\ Leq(subj.integrity, initial.subj)
    /\ Leq(obj.integrity, initial.obj)
    /\ (Returned /\ execute /\ allowed(verdict)) =>
          /\ subj.integrity = IF op.is_read THEN integrity_set_meet(pre.subj, pre.obj) ELSE pre.subj
          /\ obj.integrity = IF op.is_write THEN integrity_set_meet(pre.obj, pre.subj) ELSE pre.obj

\* a read lowered the subject, after an earlier write had lowered the object
C27_Witness ==
    /\ Returned /\ execute /\ allowed(verdict) /\ op = op_rd
    /\ subj.integrity # pre.subj
    /\ pre.obj # initial.obj

\* a function that returns a value at most its limit, whatever safe() says
ObeysLimit(f) ==
    \A i \in Integrity, limit \in Integrity : Leq(fun_call(f, i, limit), limit)

AllObeyLimit == ObeysLimit(obj.test_fun) /\ ObeysLimit(subj.prov_fun) /\ ObeysLimit(obj.recv_fun)

\* what pass_integrity(subj, obj) joins on top of the test result
JoinedPart ==
    IF /\ pass_calls_recv(subj)
       /\ ~integrity_set_eq(pass_i_recv_raw(subj, obj), integrity_set_min)
    THEN pass_i_recv(subj, obj)
    ELSE integrity_set_min

\* C28: when the reader's testing function, the writer's providing function
\* and the reader's receiving function each return at most their limit,
\* pass_integrity(writer, reader) is at most reader.integrity +
\* writer.integrity, it is the test result joined with a part that is at
\* most writer.integrity, and the test result is at most reader.integrity.
C28_WithinJoin ==
    (pc = "passed" /\ AllObeyLimit) =>
        /\ Leq(i_obj.val, integrity_set_join(obj.integrity, subj.integrity))
        /\ i_obj.val = integrity_set_join(pass_i_test(subj, obj), JoinedPart)
        /\ Leq(JoinedPart, subj.integrity)
        /\ Leq(pass_i_test(subj, obj), obj.integrity)

\* functions that obey the limit without all declaring it, and a received
\* part that lifts the result above the reader's integrity
C28_Witness ==
    /\ pc = "passed" /\ AllObeyLimit /\ ~AllSafe
    /\ ~integrity_set_eq(JoinedPart, integrity_set_min)
    /\ ~Leq(i_obj.val, obj.integrity)

\* C29: the prospective integrities of a call are computed from the
\* integrities subject and object had before the call, also when the
\* operation is read-write: i_subj is pass_integrity(obj, subj) and i_obj is
\* pass_integrity(subj, obj) of the entities as they were, and an allowed,
\* executed read-write operation leaves exactly these two values.
C29_FromOldIntegrities ==
    /\ i_subj.has => i_subj.val = pass_integrity(obj0, subj0)
    /\ i_obj.has => i_obj.val = pass_integrity(subj0, obj0)
    /\ (Returned /\ execute /\ allowed(verdict) /\ op = op_rd_wr) =>
          /\ subj.integrity = pass_integrity(obj0, subj0)
          /\ obj.integrity = pass_integrity(subj0, obj0)

\* an executed read-write operation changed both integrities, and the
\* subject's new integrity is not what the object's new integrity would
\* have given it
C29_Witness ==
    /\ Returned /\ execute /\ allowed(verdict) /\ op = op_rd_wr
    /\ subj.integrity # pre.subj
    /\ obj.integrity # pre.obj
    /\ subj.integrity # pass_integrity(obj, subj0)

(***************************************************************************)
(* cmd_run on a queue of several requests.                                 *)
(***************************************************************************)
\* the largest request id, and so the longest queue
MaxReq == 2

\* the operation and the argument of the requests in the queue
RunKinds ==
    { <<DemoOp("read", TRUE, FALSE), NoArg>>,
      <<DemoOp("write", FALSE, TRUE), NoArg>>,
      <<DemoOp("set_integrity", FALSE, TRUE), NoArg>>,
      <<DemoOp("set_integrity", FALSE, TRUE), ArgInt(Universe)>>,
      <<DemoOp("clone", FALSE, FALSE), NoArg>>,
      <<DemoOp("destroy", FALSE, FALSE), NoArg>> }

\* the possible contents of table REQUEST: rows with distinct ids
RequestTables ==
    UNION { { {Request(id, k[id][1], k[id][2]) : id \in ids} : k \in [ids -> RunKinds] }
            : ids \in SUBSET (1..MaxReq) }

InitRun ==
    /\ \E si \in {Universe, Set({1})}, oi \in {Set({1}), integrity_set_min},
          oa \in DemoAccessSet, names \in {{"subj", "obj"}, {"subj"}} :
          db = [names |-> names,
                subj |-> Entity(si, Acl(<<integrity_set_min>>), OpsAcl(NoMap, NullAcl),
                                demo_fun_identity, demo_fun_min, demo_fun_min),
                obj |-> Entity(oi, Acl(<<integrity_set_min>>), oa,
                               demo_fun_identity, demo_fun_min, demo_fun_min),
                clone |-> DefaultEntity]
    /\ \E requests \in RequestTables : StartSql(requests)
    /\ DriverLocals

SpecRun == InitRun /\ [][NextDemo]_vars

\* the requests cmd_run has completed, and the one it is processing
Completed == { run.ops[k] : k \in 1..(IF pc \in {"idle", "exit"} /\ run.exit # "failure" THEN run.cur ELSE run.cur - 1) }

InProgress == run.read /\ run.cur > 0 /\ pc \notin {"idle", "exit"}

ResultIds(t) == { r.id : r \in t }

\* the request cmd_run has just committed
JustCommitted == run.read /\ run.cur > 0 /\ pc = "idle"

LastResult == CHOOSE r \in committed.result : r.id = run.ops[run.cur].id

\* C22: after the driver has completed an allowed request whose body marked
\* the object for destruction (operation destroy), the entity store holds
\* the subject and no longer the object.
C22_DestroyRemovesObject ==
    (JustCommitted /\ run.ops[run.cur].op.key = "destroy" /\ LastResult.allowed /\ ~LastResult.error) =>
        /\ "subj" \in committed.db.names
        /\ "obj" \notin committed.db.names

\* the rows of RESULT in the committed database that belong to request r
ResultsOf(r) == { x \in committed.result : x.id = r.id }

\* a commit moves one request from REQUEST to RESULT
CommitsOneRequest ==
    \E r \in committed.request :
        /\ committed'.request = committed.request \ {r}
        /\ \E x \in committed'.result :
              /\ x.id = r.id
              /\ x \notin committed.result
              /\ committed'.result = committed.result \cup {x}
        /\ committed'.db = db

\* C23: in every committed state of the database each request that was in
\* REQUEST at the start is either still in REQUEST or has exactly one row in
\* RESULT, never both and never neither; the committed state changes only
\* by removing one request, adding its RESULT row and storing the exported
\* entities, all at once; after a run that ends successfully REQUEST is
\* empty and RESULT holds one row per request.
C23_RequestOrResult ==
    /\ [](/\ committed.request \subseteq run.start
          /\ ResultIds(committed.result) \subseteq ResultIds(run.start)
          /\ \A r \in run.start :
                IF r \in committed.request
                THEN ResultsOf(r) = {}
                ELSE Cardinality(ResultsOf(r)) = 1
          /\ run.exit = "success" =>
                /\ committed.request = {}
                /\ Cardinality(committed.result) = Cardinality(run.start))
    /\ [][committed' # committed => CommitsOneRequest]_vars

\* the second of two requests is being processed after the first was
\* committed: one request has its RESULT row, the other is still in REQUEST
C23_Witness ==
    /\ InProgress /\ run.cur = 2 /\ pc = "drv_done"
    /\ Cardinality(committed.request) = 1
    /\ Cardinality(committed.result) = 1
    /\ tables.request = {}
    /\ Cardinality(tables.result) = 2
    /\ db # committed.db

\* the ids of the requests cmd_run has completed
CompletedIds == { o.id : o \in Completed }

\* C24: the driver processes the requests in ascending order of their ids,
\* one at a time: the deque holds the requests of REQUEST in ascending id
\* order, the committed results are those of the requests before the
\* current one, no request with a smaller id than the current one is still
\* waiting, and each request starts from the entities as committed by the
\* requests before it, with no transaction left open.
C24_QueueOrder ==
    /\ [](/\ \A j, k \in 1..Len(run.ops) : j < k => run.ops[j].id < run.ops[k].id
          /\ (run.read /\ run.exit # "abort") =>
                { Request(o.id, o.op, o.arg) : o \in { run.ops[k] : k \in 1..Len(run.ops) } } = run.start
          /\ run.cur <= Len(run.ops)
          /\ ResultIds(committed.result) = CompletedIds
          /\ InProgress => \A r \in committed.request : r.id >= run.ops[run.cur].id)
    /\ [][(pc = "idle" /\ pc' = "init_verdict") =>
             /\ run'.cur = run.cur + 1
             /\ tables = [request |-> committed.request, result |-> committed.result]
             /\ db = committed.db
             /\ subj' = committed.db.subj
             /\ obj' = committed.db.obj]_vars

\* the request with id 2 starts with the subject as the request with id 1
\* left it, which is not as it was initially
C24_Witness ==
    /\ InProgress /\ run.cur = 2 /\ pc = "init_verdict"
    /\ run.ops[1].id = 1 /\ run.ops[2].id = 2
    /\ subj.integrity # initial.subj
    /\ subj = committed.db.subj

\* the failures of the agent that cmd_run looks at
DriverFaults == {"import_subj", "import_obj", "export_subj", "export_obj"}

\* C25: when importing or exporting the subject or the object of a request
\* fails, cmd_run returns a non-zero exit code and nothing of the request is
\* persisted: the committed database is the one from before the request,
\* with the request still in REQUEST and no row of it in RESULT, the rows of
\* the requests completed earlier are kept, and the open transaction is
\* rolled back.
C25_FailureRollsBack ==
    /\ [](/\ run.fault \in DriverFaults => run.exit = "failure"
          /\ run.exit = "failure" =>
                /\ run.fault \in DriverFaults
                /\ ExitCode # EXIT_SUCCESS
                /\ pc = "exit"
                /\ LET o == run.ops[run.cur]
                   IN  /\ Request(o.id, o.op, o.arg) \in committed.request
                       /\ o.id \notin ResultIds(committed.result)
                /\ ResultIds(committed.result) = { run.ops[k].id : k \in 1..(run.cur - 1) }
                /\ tables = [request |-> committed.request, result |-> committed.result]
                /\ db = committed.db)
    /\ [][run'.exit = "failure" => committed' = committed]_vars

\* exporting the object of the second request failed after the engine had
\* lowered the subject: the stored subject is the one the first request left
C25_Witness ==
    /\ run.exit = "failure" /\ run.fault = "export_obj" /\ run.cur = 2
    /\ Cardinality(committed.result) = 1
    /\ Cardinality(committed.request) = 1
    /\ subj.integrity # committed.db.subj.integrity
    /\ result.written /\ result.allowed

\* C30: when the clone operation cannot export the cloned entity, its body
\* reports the failure: the verdict's error flag is set and the driver
\* records error = true in the result of the request.
C30_CloneFailureIsError ==
    (op.key = "clone" /\ run.fault = "export_clone") =>
        /\ pc \in {"drv_export", "drv_done"} => verdict.error
        /\ pc = "drv_done" => result.error

====
